---- MODULE Spec2Model ----
(***************************************************************************)
(* Model of scripts/build_release.py: the Manifest class (load, save,      *)
(* slug, version bump) and the ReleaseBuilder class (exclusion test,       *)
(* archive assembly, the two package builds, build_all) driven by main().  *)
(*                                                                         *)
(* A Python str is a sequence of tokens.  A version string and a project   *)
(* name are sequences of one-character tokens; a file name is a sequence   *)
(* of tokens whose last token is its extension (<<"a", ".js">>), so that   *)
(* str.endswith on an extension is a suffix test on the sequence.  A path  *)
(* is a sequence of file names.                                            *)
(***************************************************************************)
EXTENDS Integers, Sequences, FiniteSets, TLC

VARIABLES
    disk,      \* manifest.json on disk: the members of its JSON object, in order
    disk0,     \* history: manifest.json as it was when the process started
    data,      \* Manifest._data: the dict json.load built (insertion ordered)
    loaded,    \* history: Manifest._data as __init__ loaded it
    pc,        \* where main() (or the function under study) stands
    bumpArg,   \* args.bump: "none", "major", "minor" or "patch"
    ret,       \* what bump_version returned: <<old_version, new_version>>
    saves,     \* history: the number of completed Manifest._save calls
    slug1,     \* Manifest.slug of the manifest
    slug2,     \* Manifest.slug of a manifest whose name is slug1
    root,      \* ReleaseBuilder.project_root, split on os.sep
    tree,      \* the files below project_root: paths relative to it
    unreadable,\* the files zipf.write cannot read (open() raises OSError)
    releases,  \* the releases folder: a set of [name, kind, entries]
    releases0, \* history: the releases folder as the run found it
    target,    \* filename in _create_package: the package being built
    visited,   \* history: the directories os.walk listed
    result     \* the dict build_all builds and, once pc = "done", has returned

vars == <<disk, disk0, data, loaded, pc, bumpArg, ret, saves, slug1, slug2,
          root, tree, unreadable, releases, releases0, target, visited, result>>

(***************************************************************************)
(* Strings                                                                 *)
(***************************************************************************)
\* s.endswith(suffix)
EndsWith(s, suffix) ==
    /\ Len(suffix) <= Len(s)
    /\ SubSeq(s, Len(s) - Len(suffix) + 1, Len(s)) = suffix

\* s.split(sep) for a one-token separator: always at least one piece
RECURSIVE SplitOn(_, _)
SplitOn(s, sep) ==
    IF s = <<>> THEN << <<>> >>
    ELSE LET rest == SplitOn(Tail(s), sep)
         IN  IF Head(s) = sep THEN << <<>> >> \o rest
             ELSE << <<Head(s)>> \o Head(rest) >> \o Tail(rest)

RECURSIVE JoinWith(_, _)
JoinWith(parts, sep) ==
    IF parts = <<>> THEN <<>>
    ELSE IF Len(parts) = 1 THEN Head(parts)
    ELSE Head(parts) \o <<sep>> \o JoinWith(Tail(parts), sep)

Range(f) == {f[i] : i \in DOMAIN f}

\* the sequences over S of length at most n: the inputs are drawn from these
RECURSIVE SeqsUpTo(_, _)
SeqsUpTo(S, n) ==
    IF n = 0 THEN {<<>>}
    ELSE LET T == SeqsUpTo(S, n - 1)
         IN  T \cup {Append(t, c) : t \in T, c \in S}

(***************************************************************************)
(* JSON object <-> dict                                                    *)
(***************************************************************************)
Keys(d) == {d[i][1] : i \in DOMAIN d}

\* d[k] = v on an insertion-ordered dict: a known key keeps its place
DictSet(d, k, v) ==
    IF k \in Keys(d)
    THEN [i \in DOMAIN d |-> IF d[i][1] = k THEN <<k, v>> ELSE d[i]]
    ELSE Append(d, <<k, v>>)

\* d.get(k, default)
DictGet(d, k, default) ==
    IF k \in Keys(d)
    THEN LET i == CHOOSE j \in DOMAIN d : d[j][1] = k IN d[i][2]
    ELSE default

\* json.load: the members in file order, a repeated key keeping its first
\* place and its last value
RECURSIVE JsonLoadFrom(_, _)
JsonLoadFrom(d, members) ==
    IF members = <<>> THEN d
    ELSE JsonLoadFrom(DictSet(d, Head(members)[1], Head(members)[2]), Tail(members))

JsonLoad(members) == JsonLoadFrom(<<>>, members)

\* a buggy dump: only the fields the script knows are written
JsonDumpKnownOnly(d) ==
    SelectSeq(d, LAMBDA m : m[1] \in {"name", "version", "description"})

\* json.dump(self._data, f, indent=4): every item, in dict order
JsonDump(d) == d

(***************************************************************************)
(* Manifest properties                                                     *)
(***************************************************************************)
DefaultName == <<"e", "x", "t", "e", "n", "s", "i", "o", "n">>
DefaultVersion == <<"0", ".", "0", ".", "0">>

ManifestName(d) == DictGet(d, "name", DefaultName)
ManifestVersion(d) == DictGet(d, "version", DefaultVersion)
ManifestDescription(d) == DictGet(d, "description", <<>>)

UpperLetters ==
    <<"A", "B", "C", "D", "E", "F", "G", "H", "I", "J", "K", "L", "M",
      "N", "O", "P", "Q", "R", "S", "T", "U", "V", "W", "X", "Y", "Z">>
LowerLetters ==
    <<"a", "b", "c", "d", "e", "f", "g", "h", "i", "j", "k", "l", "m",
      "n", "o", "p", "q", "r", "s", "t", "u", "v", "w", "x", "y", "z">>

LowerChar(c) ==
    IF \E i \in DOMAIN UpperLetters : UpperLetters[i] = c
    THEN LowerLetters[CHOOSE i \in DOMAIN UpperLetters : UpperLetters[i] = c]
    ELSE c

\* str.lower, one character at a time (the model draws ASCII only)
PyLower(s) == [i \in DOMAIN s |-> LowerChar(s[i])]

\* the characters the class [a-z0-9] holds
SlugAlnum ==
    {"a", "b", "c", "d", "e", "f", "g", "h", "i", "j", "k", "l", "m",
     "n", "o", "p", "q", "r", "s", "t", "u", "v", "w", "x", "y", "z",
     "0", "1", "2", "3", "4", "5", "6", "7", "8", "9"}

RECURSIVE SubEachFrom(_)
SubEachFrom(s) ==
    IF s = <<>> THEN <<>>
    ELSE (IF Head(s) \in SlugAlnum THEN <<Head(s)>> ELSE <<"-">>) \o SubEachFrom(Tail(s))

\* a buggy substitution: the pattern without its +, one hyphen per character
SubEachChar(s, inRun) == SubEachFrom(s)

\* re.sub(r'[^a-z0-9]+', '-', s): inRun says the previous character was
\* already part of the run being replaced
RECURSIVE ReSubNonAlnum(_, _)
ReSubNonAlnum(s, inRun) ==
    IF s = <<>> THEN <<>>
    ELSE IF Head(s) \in SlugAlnum
         THEN <<Head(s)>> \o ReSubNonAlnum(Tail(s), FALSE)
         ELSE (IF inRun THEN <<>> ELSE <<"-">>) \o ReSubNonAlnum(Tail(s), TRUE)

RECURSIVE LStrip(_, _)
LStrip(s, c) == IF s # <<>> /\ Head(s) = c THEN LStrip(Tail(s), c) ELSE s

RECURSIVE RStrip(_, _)
RStrip(s, c) ==
    IF s # <<>> /\ s[Len(s)] = c THEN RStrip(SubSeq(s, 1, Len(s) - 1), c) ELSE s

\* s.strip(c)
Strip(s, c) == RStrip(LStrip(s, c), c)

\* Manifest.slug, as a function of the name
SlugOf(name) == Strip(ReSubNonAlnum(PyLower(name), FALSE), "-")

Slug(d) == SlugOf(ManifestName(d))

(***************************************************************************)
(* Manifest.bump_version                                                   *)
(***************************************************************************)
Digits == <<"0", "1", "2", "3", "4", "5", "6", "7", "8", "9">>
DigitSet == Range(Digits)
DigitVal(c) == (CHOOSE i \in DOMAIN Digits : Digits[i] = c) - 1

AllDigits(s) == s # <<>> /\ \A i \in DOMAIN s : s[i] \in DigitSet

\* int(s) returns (rather than raising ValueError): an optional sign and at
\* least one digit.  The model draws no whitespace, "+" or "_".
IntParses(s) ==
    \/ AllDigits(s)
    \/ s # <<>> /\ Head(s) = "-" /\ AllDigits(Tail(s))

RECURSIVE DigitsValue(_, _)
DigitsValue(s, acc) ==
    IF s = <<>> THEN acc ELSE DigitsValue(Tail(s), acc * 10 + DigitVal(Head(s)))

\* int(s), where it parses
PyInt(s) == IF Head(s) = "-" THEN 0 - DigitsValue(Tail(s), 0) ELSE DigitsValue(s, 0)

RECURSIVE NatStr(_)
NatStr(n) == IF n < 10 THEN <<Digits[n + 1]>> ELSE NatStr(n \div 10) \o <<Digits[(n % 10) + 1]>>

\* str(n) of an int
PyStr(n) == IF n < 0 THEN <<"-">> \o NatStr(0 - n) ELSE NatStr(n)

\* while len(parts) < 3: parts.append('0')
RECURSIVE PadParts(_)
PadParts(parts) == IF Len(parts) < 3 THEN PadParts(Append(parts, <<"0">>)) ELSE parts

\* a buggy bump: minor leaves patch as it was
BumpNoReset(major, minor, patch, kind) ==
    IF kind = "major" THEN <<major + 1, 0, 0>>
    ELSE IF kind = "minor" THEN <<major, minor + 1, patch>>
    ELSE <<major, minor, patch + 1>>

\* the if / elif / else of bump_version
BumpNumbers(major, minor, patch, kind) ==
    IF kind = "major" THEN <<major + 1, 0, 0>>
    ELSE IF kind = "minor" THEN <<major, minor + 1, 0>>
    ELSE <<major, minor, patch + 1>>

\* the parts bump_version reads, and whether int() takes the three it converts
BumpParts(d) == PadParts(SplitOn(ManifestVersion(d), "."))
BumpParses(d) == \A i \in 1..3 : IntParses(BumpParts(d)[i])

\* new_version = f'{major}.{minor}.{patch}'
NewVersion(d, kind) ==
    LET parts == BumpParts(d)
        n == BumpNumbers(PyInt(parts[1]), PyInt(parts[2]), PyInt(parts[3]), kind)
    IN  JoinWith(<<PyStr(n[1]), PyStr(n[2]), PyStr(n[3])>>, ".")

(***************************************************************************)
(* ReleaseBuilder: configuration                                           *)
(***************************************************************************)
ManifestFile == <<"manifest", ".json">>

STORE_FILES == <<ManifestFile, <<"icons">>, <<"src">> >>

DOCS_FILES ==
    << <<"README", ".md">>, <<"PRIVACY", ".md">>, <<"LICENSE">>, <<"CHANGELOG", ".md">> >>

\* a pattern that starts with '*' is <<"*", suffix>>
EXCLUDE_PATTERNS ==
    << <<"__pycache__">>, <<".git">>, <<".gitignore">>, <<".gitattributes">>,
       <<"node_modules">>, <<"releases">>, <<"docs">>, <<"scripts">>,
       <<".vscode">>, <<".idea">>, <<"*", ".zip">>, <<"*", ".pyc">>,
       <<".DS_Store">>, <<"Thumbs", ".db">> >>

\* the dict of build_all before anything is put in it
NoResult ==
    [name |-> <<>>, slug |-> <<>>, version |-> <<>>, description |-> <<>>,
     store |-> <<>>, github |-> <<>>, output_dir |-> <<>>]

\* self.output_dir = os.path.join(self.project_root, 'releases')
OutputDir == root \o << <<"releases">> >>

(***************************************************************************)
(* The file system below project_root                                      *)
(***************************************************************************)
IsPrefix(p, q) == Len(p) <= Len(q) /\ SubSeq(q, 1, Len(p)) = p

IsFile(p) == p \in tree
IsDir(p) == \E f \in tree : IsPrefix(p, f) /\ f # p
Exists(p) == IsFile(p) \/ IsDir(p)

\* the order in which a directory lists its names
NameOrder ==
    << ManifestFile, <<"README", ".md">>, <<"CHANGELOG", ".md">>, <<"LICENSE">>,
       <<"PRIVACY", ".md">>, <<"icons">>, <<"src">>, <<"icon", ".png">>,
       <<"a", ".js">>, <<"b", ".zip">>, <<".DS_Store">>, <<"lib">>,
       <<"node_modules">> >>

ListFiles(d) == SelectSeq(NameOrder, LAMBDA n : IsFile(d \o <<n>>))
ListDirs(d) == SelectSeq(NameOrder, LAMBDA n : IsDir(d \o <<n>>))

(***************************************************************************)
(* ReleaseBuilder._should_exclude and _add_to_zip                          *)
(***************************************************************************)
\* _should_exclude(path), path split on os.sep
ShouldExclude(path) ==
    LET name == path[Len(path)]
    IN  \E i \in DOMAIN EXCLUDE_PATTERNS :
            LET pattern == EXCLUDE_PATTERNS[i]
            IN  IF Head(pattern) = "*"
                THEN EndsWith(name, Tail(pattern))
                ELSE pattern = name \/ pattern \in Range(path)

\* a buggy pruning: no directory is dropped from dirs
KeptDirsAll(d) == ListDirs(d)

\* dirs[:] = [d for d in dirs if not self._should_exclude(d)]
KeptDirs(d) == SelectSeq(ListDirs(d), LAMBDA n : ~ShouldExclude(<<n>>))

\* the files of one directory that pass `if self._should_exclude(file)`
KeptFiles(d) == SelectSeq(ListFiles(d), LAMBDA n : ~ShouldExclude(<<n>>))

\* os.path.relpath(file_path, source)
RelPath(filePath, source) == SubSeq(filePath, Len(source) + 1, Len(filePath))

\* what the walk of directory d does, in order: os.walk lists d, the loop
\* body writes the files of d that are kept, then the kept directories of d
\* are walked in turn.  source is the directory _add_to_zip was given.
RECURSIVE DirEvents(_, _, _)
RECURSIVE ChildEvents(_, _, _, _)
DirEvents(d, source, arcname) ==
    << [op |-> "list", src |-> d, arc |-> <<>>] >>
    \o [i \in DOMAIN KeptFiles(d) |->
          [op |-> "write", src |-> d \o <<KeptFiles(d)[i]>>,
           arc |-> <<arcname>> \o RelPath(d \o <<KeptFiles(d)[i]>>, source)]]
    \o ChildEvents(d, KeptDirs(d), source, arcname)

ChildEvents(d, children, source, arcname) ==
    IF children = <<>> THEN <<>>
    ELSE DirEvents(d \o <<Head(children)>>, source, arcname)
         \o ChildEvents(d, Tail(children), source, arcname)

\* _add_to_zip(zipf, os.path.join(project_root, item), item): the test of a
\* single file is made on its absolute path
AddToZipEvents(item) ==
    IF IsFile(<<item>>)
    THEN IF ShouldExclude(root \o <<item>>) THEN <<>>
         ELSE << [op |-> "write", src |-> <<item>>, arc |-> <<item>>] >>
    ELSE IF IsDir(<<item>>) THEN DirEvents(<<item>>, <<item>>, item)
    ELSE <<>>

\* for item in files: if os.path.exists(source): self._add_to_zip(...)
RECURSIVE PackageEvents(_)
PackageEvents(files) ==
    IF files = <<>> THEN <<>>
    ELSE (IF Exists(<<Head(files)>>) THEN AddToZipEvents(Head(files)) ELSE <<>>)
         \o PackageEvents(Tail(files))

\* the first write that raises (zipf.write of a file it cannot read), or 0
FirstFailure(events) ==
    LET bad == {i \in DOMAIN events : events[i].op = "write" /\ events[i].src \in unreadable}
    IN  IF bad = {} THEN 0 ELSE CHOOSE i \in bad : \A j \in bad : i <= j

(***************************************************************************)
(* ReleaseBuilder._create_package and the builds                           *)
(***************************************************************************)
\* a buggy name: the version the manifest was loaded with
PackageNameLoaded(d, suffix) ==
    Slug(d) \o <<"-v">> \o ManifestVersion(loaded) \o suffix \o <<".zip">>

\* f'{self.manifest.slug}-v{self.manifest.version}{suffix}.zip'
PackageName(d, suffix) ==
    Slug(d) \o <<"-v">> \o ManifestVersion(d) \o suffix \o <<".zip">>

\* _get_existing_files(file_list)
GetExistingFiles(fileList) == SelectSeq(fileList, LAMBDA item : Exists(<<item>>))

Entries(events) ==
    LET w == SelectSeq(events, LAMBDA e : e.op = "write")
    IN  [i \in DOMAIN w |-> w[i].arc]

Listed(events) == {events[i].src : i \in {j \in DOMAIN events : events[j].op = "list"}}

\* a buggy removal: any failure of os.remove is swallowed and the archive
\* is written over what is there
RemovalAborts(kind) == "no"

\* how os.remove(filepath) ends for what lies at the path: a locked file
\* raises PermissionError, which is turned into SystemExit(1); any other
\* OSError is not caught and leaves _create_package as it is
RemovalOutcome(kind) ==
    IF kind = "locked" THEN "exit1"
    ELSE IF kind = "stuck" THEN "removeError"
    ELSE "no"

\* _create_package(files, suffix), to its return (pc becomes okPc) or to the
\* exception that leaves it.  The with statement closes the archive on
\* every way out, so what was written before an exception stays on disk as
\* a closed archive.
CreatePackage(files, suffix, okPc) ==
    LET name == PackageName(data, suffix)
        stale == {f \in releases : f.name = name}
        aborts == {RemovalOutcome(f.kind) : f \in stale} \ {"no"}
        events == PackageEvents(files)
        k == FirstFailure(events)
        done == IF k = 0 THEN events ELSE SubSeq(events, 1, k - 1)
    IN  /\ target' = name
        /\ IF aborts # {}
           THEN /\ pc' = CHOOSE a \in aborts : TRUE
                /\ UNCHANGED <<releases, visited>>
           ELSE /\ releases' = (releases \ stale)
                       \cup {[name |-> name, kind |-> "zip", entries |-> Entries(done)]}
                /\ visited' = visited \cup Listed(done)
                /\ pc' = IF k = 0 THEN okPc ELSE "zipError"

\* build_all up to the end of build_store_package(): the dict gets name,
\* slug, version and description, then the store package is built
BuildStore ==
    /\ \/ pc = "start" /\ bumpArg = "none"
       \/ pc = "bumped"
    /\ CreatePackage(GetExistingFiles(STORE_FILES), <<"-store">>, "storeBuilt")
    /\ result' = [NoResult EXCEPT !.name = ManifestName(data),
                                  !.slug = Slug(data),
                                  !.version = ManifestVersion(data),
                                  !.description = ManifestDescription(data),
                                  !.store = IF pc' = "storeBuilt"
                                            THEN OutputDir \o <<target'>> ELSE <<>>]
    /\ UNCHANGED <<disk, disk0, data, loaded, bumpArg, ret, saves, slug1, slug2,
                   root, tree, unreadable, releases0>>

\* build_github_package() and the return of build_all
BuildGithub ==
    /\ pc = "storeBuilt"
    /\ CreatePackage(GetExistingFiles(STORE_FILES) \o GetExistingFiles(DOCS_FILES),
                     <<>>, "done")
    /\ result' = IF pc' = "done"
                 THEN [result EXCEPT !.github = OutputDir \o <<target'>>,
                                     !.output_dir = OutputDir]
                 ELSE result
    /\ UNCHANGED <<disk, disk0, data, loaded, bumpArg, ret, saves, slug1, slug2,
                   root, tree, unreadable, releases0>>

(***************************************************************************)
(* The values the variables of the builder have while only the manifest    *)
(* is under study                                                          *)
(***************************************************************************)
NoBuilder ==
    /\ root = <<>>
    /\ tree = {}
    /\ unreadable = {}
    /\ releases = {}
    /\ releases0 = {}
    /\ target = <<>>
    /\ visited = {}
    /\ result = NoResult

BuilderUnchanged == UNCHANGED <<root, tree, unreadable, releases, releases0, target, visited, result>>

(***************************************************************************)
(* Manifest.slug on bounded names                                          *)
(***************************************************************************)
MaxNameLen == 4
NameAlphabet == {"a", "B", "1", "-", " ", "_"}

SlugManifests ==
    {<< <<"name", n>>, <<"version", <<"1", ".", "0", ".", "0">> >> >> :
        n \in SeqsUpTo(NameAlphabet, MaxNameLen)}
    \cup {<< <<"version", <<"1", ".", "0", ".", "0">> >> >>}

InitSlug ==
    /\ disk \in SlugManifests
    /\ disk0 = disk
    /\ data = JsonLoad(disk)
    /\ loaded = data
    /\ pc = "start"
    /\ bumpArg = "none"
    /\ ret = <<>>
    /\ saves = 0
    /\ slug1 = <<>>
    /\ slug2 = <<>>
    /\ NoBuilder

\* manifest.slug
ReadSlug ==
    /\ pc = "start"
    /\ slug1' = Slug(data)
    /\ pc' = "slugged"
    /\ UNCHANGED <<disk, disk0, data, loaded, bumpArg, ret, saves, slug2>>
    /\ BuilderUnchanged

\* manifest.slug of a manifest whose name is the slug just read
ReadSlugOfSlug ==
    /\ pc = "slugged"
    /\ slug2' = Slug(DictSet(data, "name", slug1))
    /\ pc' = "reslugged"
    /\ UNCHANGED <<disk, disk0, data, loaded, bumpArg, ret, saves, slug1>>
    /\ BuilderUnchanged

NextSlug == ReadSlug \/ ReadSlugOfSlug

SpecSlug == InitSlug /\ [][NextSlug]_vars

(***************************************************************************)
(* Manifest.bump_version on bounded version strings                        *)
(***************************************************************************)
MaxParts == 4
BumpKinds == {"major", "minor", "patch"}

\* the components a version string is drawn from: numbers (one of them with
\* a leading zero, one that carries), the empty string, a negative number
\* and a word
Components ==
    {<<"0">>, <<"9">>, <<"0", "1">>, <<>>, <<"-", "1">>, <<"x">>}

VersionStrings == {JoinWith(parts, ".") : parts \in SeqsUpTo(Components, MaxParts) \ {<<>>}}

Homepage == <<"h">>
OtherHomepage == <<"g">>
SomeName == <<"M", "y", " ", "E", "x", "t">>

\* manifest files holding version v: the usual order, an unknown field
\* first, and an unknown field given twice
ManifestsWith(v) ==
    { << <<"name", SomeName>>, <<"version", v>>, <<"homepage", Homepage>> >>,
      << <<"homepage", Homepage>>, <<"version", v>> >>,
      << <<"homepage", Homepage>>, <<"version", v>>, <<"homepage", OtherHomepage>> >> }

ManifestNoVersion == << <<"homepage", Homepage>>, <<"name", SomeName>> >>

InitBump ==
    /\ disk \in UNION {ManifestsWith(v) : v \in VersionStrings} \cup {ManifestNoVersion}
    /\ disk0 = disk
    /\ data = JsonLoad(disk)
    /\ loaded = data
    /\ pc = "start"
    /\ bumpArg = "none"
    /\ ret = <<>>
    /\ saves = 0
    /\ slug1 = <<>>
    /\ slug2 = <<>>
    /\ NoBuilder

\* bump_version(kind) to its return, or to the ValueError of int(): the
\* version setter stores the new version and _save writes the whole dict
BumpVersion(kind) ==
    /\ pc = "start"
    /\ bumpArg' = kind
    /\ IF BumpParses(data)
       THEN /\ data' = DictSet(data, "version", NewVersion(data, kind))
            /\ disk' = JsonDump(data')
            /\ saves' = saves + 1
            /\ ret' = <<ManifestVersion(data), NewVersion(data, kind)>>
            /\ pc' = "bumped"
       ELSE /\ pc' = "valueError"
            /\ UNCHANGED <<data, disk, saves, ret>>
    /\ UNCHANGED <<disk0, loaded, slug1, slug2>>
    /\ BuilderUnchanged

\* bump_version(kind) when open(self.path, 'w') in _save raises OSError (a
\* read-only manifest.json): the setter has already stored the new version
BumpVersionSaveFails(kind) ==
    /\ pc = "start"
    /\ BumpParses(data)
    /\ bumpArg' = kind
    /\ data' = DictSet(data, "version", NewVersion(data, kind))
    /\ pc' = "saveError"
    /\ UNCHANGED <<disk, disk0, loaded, ret, saves, slug1, slug2>>
    /\ BuilderUnchanged

NextBump ==
    \E kind \in BumpKinds : BumpVersion(kind) \/ BumpVersionSaveFails(kind)

SpecBump == InitBump /\ [][NextBump]_vars

(***************************************************************************)
(* main(): an optional bump, then build_all                                *)
(***************************************************************************)
MaxTreeFiles == 3
MaxStale == 1

MainVersions == {<<"1", ".", "9">>, <<"1", ".", "x">>}

MainManifests ==
    {<< <<"name", SomeName>>, <<"version", v>>, <<"description", <<"d">> >>,
        <<"homepage", Homepage>> >> : v \in MainVersions}

\* where the project may be checked out
Roots == {<< <<"home">>, <<"ext">> >>, << <<"home">>, <<"docs">>, <<"ext">> >>}

\* the files a project may hold besides manifest.json
OptionalFiles ==
    { << <<"README", ".md">> >>, << <<"CHANGELOG", ".md">> >>,
      << <<"icons">>, <<"icon", ".png">> >>,
      << <<"src">>, <<"a", ".js">> >>,
      << <<"src">>, <<"b", ".zip">> >>,
      << <<"src">>, <<"node_modules">>, <<"a", ".js">> >> }

\* the subsets of S of at most n elements
RECURSIVE BoundedSubsets(_, _)
BoundedSubsets(S, n) ==
    IF n = 0 THEN {{}}
    ELSE LET B == BoundedSubsets(S, n - 1)
         IN  B \cup {T \cup {x} : T \in B, x \in S}

\* the version the builds of this run will name their packages with
RunVersion(d, arg) ==
    IF arg # "none" /\ BumpParses(d) THEN NewVersion(d, arg) ELSE ManifestVersion(d)

\* what may lie in the releases folder before the run: an archive of an
\* earlier build, a file held open by another program (os.remove raises
\* PermissionError) or one that os.remove cannot delete for another
\* reason (a read-only file system: OSError)
StaleFiles(d, arg) ==
    {[name |-> PackageName(DictSet(d, "version", RunVersion(d, arg)), suffix),
      kind |-> k, entries |-> << << <<"old">> >> >>] :
        suffix \in {<<"-store">>, <<>>}, k \in {"zip", "locked", "stuck"}}

Init ==
    /\ disk \in MainManifests
    /\ disk0 = disk
    /\ data = JsonLoad(disk)
    /\ loaded = data
    /\ pc = "start"
    /\ bumpArg \in {"none"} \cup BumpKinds
    /\ ret = <<>>
    /\ saves = 0
    /\ slug1 = <<>>
    /\ slug2 = <<>>
    /\ root \in Roots
    /\ tree \in {{<<ManifestFile>>} \cup T : T \in BoundedSubsets(OptionalFiles, MaxTreeFiles)}
    /\ unreadable \in BoundedSubsets(tree \ {<<ManifestFile>>}, 1)
    /\ releases \in {T \in BoundedSubsets(StaleFiles(data, bumpArg), MaxStale) :
                        \A f, g \in T : f.name = g.name => f = g}
    /\ releases0 = releases
    /\ target = <<>>
    /\ visited = {}
    /\ result = NoResult

\* if args.bump: builder.manifest.bump_version(args.bump)
MainBump ==
    /\ bumpArg # "none"
    /\ \/ BumpVersion(bumpArg)
       \/ BumpVersionSaveFails(bumpArg)

Next == MainBump \/ BuildStore \/ BuildGithub

Spec == Init /\ [][Next]_vars

(***************************************************************************)
(* _add_to_zip on deeper trees                                             *)
(***************************************************************************)
MaxDepth == 2
MaxWalkFiles == 2

WalkDirNames == {<<"lib">>, <<"node_modules">>}
WalkFileNames == {<<"a", ".js">>, <<"b", ".zip">>, <<".DS_Store">>}

\* the files src may hold: a file name below at most MaxDepth directories
WalkFiles ==
    {<< <<"src">> >> \o dirs \o <<f>> :
        dirs \in SeqsUpTo(WalkDirNames, MaxDepth), f \in WalkFileNames}

InitWalk ==
    /\ disk = << <<"name", SomeName>>, <<"version", <<"1", ".", "9">> >> >>
    /\ disk0 = disk
    /\ data = JsonLoad(disk)
    /\ loaded = data
    /\ pc = "start"
    /\ bumpArg = "none"
    /\ ret = <<>>
    /\ saves = 0
    /\ slug1 = <<>>
    /\ slug2 = <<>>
    /\ root = << <<"home">>, <<"ext">> >>
    /\ tree \in {{<<ManifestFile>>} \cup T : T \in BoundedSubsets(WalkFiles, MaxWalkFiles)}
    /\ unreadable = {}
    /\ releases = {}
    /\ releases0 = {}
    /\ target = <<>>
    /\ visited = {}
    /\ result = NoResult

NextWalk == BuildStore \/ BuildGithub

SpecWalk == InitWalk /\ [][NextWalk]_vars

(***************************************************************************)
(* Properties                                                              *)
(***************************************************************************)
BumpActed == pc \in {"bumped", "valueError", "saveError"}
BuildActed == pc \in {"storeBuilt", "done", "zipError", "exit1", "removeError"}

OldComponents == SplitOn(ManifestVersion(loaded), ".")
OldIsNumeric == \A i \in DOMAIN OldComponents : AllDigits(OldComponents[i])

\* the number the i-th component of the loaded version stands for, 0 where
\* the version has no such component
OldNumber(i) == IF i <= Len(OldComponents) THEN DigitsValue(OldComponents[i], 0) ELSE 0

ExpectedNumbers ==
    IF bumpArg = "major" THEN <<OldNumber(1) + 1, 0, 0>>
    ELSE IF bumpArg = "minor" THEN <<OldNumber(1), OldNumber(2) + 1, 0>>
    ELSE <<OldNumber(1), OldNumber(2), OldNumber(3) + 1>>

\* a decimal numeral as str() writes it: digits, no leading zero
Canonical(s) == AllDigits(s) /\ (Len(s) > 1 => Head(s) # "0")

\* C1: a version whose components are all non-negative integers is bumped
\* without a ValueError; bump_version returns the string it found and a new
\* version of exactly three canonical numerals: major -> (M+1).0.0, minor ->
\* M.(m+1).0, patch -> M.m.(p+1), M, m, p being the first three components
\* after padding with 0.
C1_BumpResult ==
    (BumpActed /\ OldIsNumeric) =>
        /\ pc # "valueError"
        /\ pc = "bumped" =>
              LET new == SplitOn(ret[2], ".")
              IN  /\ ret[1] = ManifestVersion(loaded)
                  /\ Len(new) = 3
                  /\ \A i \in 1..3 :
                        Canonical(new[i]) /\ DigitsValue(new[i], 0) = ExpectedNumbers[i]

C1_Witness ==
    /\ pc = "bumped"
    /\ bumpArg = "minor"
    /\ ret[1] = <<"9", ".", "0", "1", ".", "9", ".", "0">>
    /\ ret[2] = <<"9", ".", "2", ".", "0">>

WithoutVersion(members) == SelectSeq(members, LAMBDA m : m[1] # "version")

\* C2: when bump_version has returned, manifest.json holds the returned new
\* version, as does the dict in memory, and its other members are those of
\* the dict as loaded, in the same order; outside a failed save the file and
\* the dict in memory never differ.
C2_WriteThrough ==
    /\ pc = "bumped" =>
          /\ ManifestVersion(JsonLoad(disk)) = ret[2]
          /\ ManifestVersion(data) = ret[2]
          /\ WithoutVersion(disk) = WithoutVersion(loaded)
    /\ pc # "saveError" => JsonLoad(disk) = data

C2_Witness ==
    /\ pc = "bumped"
    /\ disk[1] = <<"homepage", OtherHomepage>>
    /\ ret[1] # ret[2]

\* C3: if some component of the version is not a non-negative integer,
\* bump_version raises instead of returning, and neither the dict in memory
\* nor manifest.json has changed.
C3_BadComponentFails ==
    (BumpActed /\ ~OldIsNumeric) =>
        /\ pc = "valueError"
        /\ data = loaded
        /\ disk = disk0

SlugChars == SlugAlnum \cup {"-"}

\* C10: a slug holds only lowercase letters, digits and hyphens, neither
\* starts nor ends with a hyphen, has no two hyphens in a row, and is its
\* own slug.
C10_SlugIdempotent ==
    /\ pc \in {"slugged", "reslugged"} =>
          /\ \A i \in DOMAIN slug1 : slug1[i] \in SlugChars
          /\ slug1 # <<>> => slug1[1] # "-" /\ slug1[Len(slug1)] # "-"
          /\ \A i \in 1..(Len(slug1) - 1) : ~(slug1[i] = "-" /\ slug1[i + 1] = "-")
    /\ pc = "reslugged" => slug2 = slug1

C10_Witness ==
    /\ pc = "reslugged"
    /\ ManifestName(data) = <<"B", " ", "_", "1">>
    /\ slug1 = <<"b", "-", "1">>

Archives == {f \in releases : f.kind = "zip"}
ArchiveAt(n) == {f \in Archives : f.name = n}

\* C4: after a build that failed while adding an entry, no readable archive
\* lies at the path of the package that was being built.
C4_NoPartialArchive == pc = "zipError" => ArchiveAt(target) = {}

Undeletable == {f \in releases0 : f.kind \in {"locked", "stuck"}}

\* the package name written out from what bump_version returned (or, with
\* no bump, from the manifest as loaded)
RunVersionSeen == IF bumpArg = "none" THEN ManifestVersion(loaded) ELSE ret[2]
ExpectedName(suffix) ==
    SlugOf(ManifestName(loaded)) \o <<"-v">> \o RunVersionSeen \o suffix \o <<".zip">>

\* C5: a file at the target path that os.remove cannot delete, whatever the
\* error, is left as it is and no archive is written in its place; the build
\* that met it did not return a path, an aborted build met such a file, and
\* every archive of the run lies under one of the two package names.
C5_UndeletableAborts ==
    BuildActed =>
        /\ \A f \in Undeletable : f \in releases
        /\ pc \in {"storeBuilt", "done"} =>
              \A f \in Undeletable : f.name # ExpectedName(<<"-store">>)
        /\ pc = "done" => \A f \in Undeletable : f.name # ExpectedName(<<>>)
        /\ pc \in {"exit1", "removeError"} =>
              /\ \E f \in Undeletable : f.name = target
              /\ target = ExpectedName(<<"-store">>) => result.store = <<>>
              /\ result.github = <<>>
        /\ \A f \in releases \ releases0 :
              f.name \in {ExpectedName(<<"-store">>), ExpectedName(<<>>)}

C5_Witness ==
    /\ pc = "removeError"
    /\ target = ExpectedName(<<>>)
    /\ result.store # <<>>
    /\ ArchiveAt(ExpectedName(<<"-store">>)) # {}

ExactPatterns == {p \in Range(EXCLUDE_PATTERNS) : Head(p) # "*"}
WildcardSuffixes == {Tail(p) : p \in {q \in Range(EXCLUDE_PATTERNS) : Head(q) = "*"}}
MatchesPattern(name) ==
    name \in ExactPatterns \/ \E suffix \in WildcardSuffixes : EndsWith(name, suffix)

\* C6: no entry of an archive has a path segment equal to a literal
\* exclusion pattern or a file name ending in the suffix of a '*' pattern,
\* and os.walk lists no directory at or below a directory whose name matches
\* a pattern.
C6_ExcludedNeverPacked ==
    /\ \A f \in Archives : \A i \in DOMAIN f.entries :
          LET e == f.entries[i]
          IN  /\ \A j \in DOMAIN e : e[j] \notin ExactPatterns
              /\ ~MatchesPattern(e[Len(e)])
    /\ \A d \in visited : \A j \in DOMAIN d : ~MatchesPattern(d[j])

C6_Witness ==
    /\ pc = "done"
    /\ << <<"src">>, <<"lib">>, <<"node_modules">>, <<"a", ".js">> >> \in tree
    /\ << <<"src">>, <<"lib">>, <<"a", ".js">> >> \in tree
    /\ << <<"src">>, <<"lib">> >> \in visited
    /\ \E f \in Archives : << <<"src">>, <<"lib">>, <<"a", ".js">> >> \in Range(f.entries)

StoreEntries == UNION {Range(f.entries) : f \in ArchiveAt(ExpectedName(<<"-store">>))}
FullEntries == UNION {Range(f.entries) : f \in ArchiveAt(ExpectedName(<<>>))}
DocsOnDisk == {<<d>> : d \in {x \in Range(DOCS_FILES) : <<x>> \in tree}}

\* C7: after build_all every entry of the store archive is an entry of the
\* full archive, and the entries the full archive has beyond it are exactly
\* the documentation files that exist on disk.  (The claim also calls the
\* inclusion strict.)
C7_StoreSubsetOfFull ==
    pc = "done" =>
        /\ StoreEntries \subseteq FullEntries
        /\ FullEntries \ StoreEntries = DocsOnDisk

\* C8: after build_all every top-level file of a package's list that exists
\* on disk is an entry of the archive under its own name (manifest.json in
\* both, each existing documentation file in the full one), wherever the
\* project root lies.
C8_TopLevelFilesPacked ==
    pc = "done" =>
        /\ <<ManifestFile>> \in StoreEntries
        /\ <<ManifestFile>> \in FullEntries
        /\ DocsOnDisk \subseteq FullEntries

\* C9: once a build has acted, the manifest has been saved once if a bump
\* was asked for and never otherwise, manifest.json holds the version the
\* bump returned, and the package being built is named with that version;
\* when build_all has returned, both paths and the summary's version carry
\* it, and both archives lie under those names.
C9_OneVersionPerRun ==
    /\ BuildActed =>
          /\ saves = (IF bumpArg = "none" THEN 0 ELSE 1)
          /\ bumpArg = "none" => disk = disk0 /\ ret = <<>>
          /\ bumpArg # "none" => ret # <<>> /\ ManifestVersion(JsonLoad(disk)) = ret[2]
          /\ target \in {ExpectedName(<<"-store">>), ExpectedName(<<>>)}
    /\ pc = "done" =>
          /\ result.version = RunVersionSeen
          /\ result.store = OutputDir \o <<ExpectedName(<<"-store">>)>>
          /\ result.github = OutputDir \o <<ExpectedName(<<>>)>>
          /\ ArchiveAt(ExpectedName(<<"-store">>)) # {}
          /\ ArchiveAt(ExpectedName(<<>>)) # {}

C9_Witness ==
    /\ pc = "done"
    /\ bumpArg = "minor"
    /\ ret[1] = <<"1", ".", "9">>
    /\ result.version = <<"1", ".", "1", "0", ".", "0">>

====
